---- MODULE Spec2Model ----
(***************************************************************************)
(* Config-Copilot: the conversational agent (conversational_agent.py), its *)
(* chat handlers (app_interactive.py), tag validation (intent_analyzer.py),*)
(* question retrieval (qdrant_retriever.py), answer pre-fill               *)
(* (answer_filler.py) and the LLM wrapper's retry loop (llm_wrapper.py).   *)
(*                                                                         *)
(* Python strings whose case or characters matter (tags, question ids) are *)
(* sequences of one-character strings, so that str.lower() and             *)
(* str.replace(' ', '_') are computed character by character.  Python      *)
(* lists are sequences; the two question lists of the agent and the        *)
(* question dicts live in a heap, because the code aliases them.           *)
(***************************************************************************)
EXTENDS Integers, Sequences, FiniteSets, TLC

VARIABLES
    \* ---- the module-level agent of app_interactive.py and its state dict
    agent,                 \* "None" or "agent": the global of app_interactive.py
    phase,                 \* state["phase"]
    consolidated_data,     \* state["consolidated_data"]: "None" or "data"
    current_tags,          \* state["current_tags"]
    all_questions,         \* state["all_questions"]: a reference to a list
    displayed_questions,   \* state["displayed_questions"]: a reference to a list
    lists,                 \* heap of list objects: reference -> sequence of dict references
    objects,               \* heap of question dicts: reference -> question record
    categories,            \* state["categories"]
    conversation_history,  \* state["conversation_history"]
    extracted_facts,       \* state["extracted_facts"] (its keys)
    consolidated_file,     \* whether <company>/consolidated.json exists on disk
    init_pc,               \* where the running initialize coroutine is suspended
    pm_pc,                 \* where the running process_message coroutine is suspended
    temp,                  \* locals of the running coroutine
    last_call,             \* outcome of the last finished handler / coroutine
    fetch_log,             \* the tag list of the retriever's latest fetch_questions_by_tags call
    \* ---- prefill_answers_from_consolidated run on its own
    fill_pc, fill_questions, fill_consolidated, fill_i, filled_questions, fill_result, fill_llm_calls,
    \* ---- call_llm_api_async run on its own
    llm_pc, llm_args, attempt, api_calls, llm_result,
    \* ---- validate_and_expand_tags run on its own
    tag_pc, tag_input, tag_available, tag_result,
    \* ---- extract_intent_tags run on its own
    intent_pc, intent_response, intent_data,
    \* ---- fetch_questions_by_tags run on its own
    fetch_pc, fetch_tags, fetch_results, fetch_i, fetched,
    \* ---- the generation of consolidated.json (app.py and conversational_agent.py)
    gen_pc,                \* where the running generation is
    gen_caller,            \* "app": generate_all_phases, "agent": _get_or_generate_consolidated
    gen_run,               \* number of generation runs started so far
    batch_start,           \* the loop variable of the batch loop
    phase_status,          \* phase -> "pending", "created", "running", "completed", "failed"
    extract_calls,         \* phase -> extract_json_fields calls made in this run
    pauses,                \* the batch_start values after which asyncio.sleep(2) was taken
    company_dir,           \* whether output/<company> exists
    phase_files,           \* phase -> 0 (no phase<N>.json) or the run that wrote the file
    disk_consolidated,     \* consolidated.json: [exists, sections]
    gen_result,            \* what the last finished run returned
    \* ---- PrerequisiteManager (prerequisite_questions.py)
    prereq_state,          \* self.state
    prereq_result,         \* what the last process_answer call returned
    prereq_calls,          \* process_answer calls made so far
    asking_calls,          \* process_answer calls made while the phase was 'asking'
    \* ---- BasePhaseExtractor._validate_extracted_data run on its own
    flat_pc, extracted_data, validated_json

agentVars == <<agent, phase, consolidated_data, current_tags, all_questions,
               displayed_questions, lists, objects, categories,
               conversation_history, extracted_facts, consolidated_file,
               init_pc, pm_pc, temp, last_call, fetch_log>>
fillVars == <<fill_pc, fill_questions, fill_consolidated, fill_i, filled_questions, fill_result, fill_llm_calls>>
llmVars == <<llm_pc, llm_args, attempt, api_calls, llm_result>>
tagVars == <<tag_pc, tag_input, tag_available, tag_result>>
intentVars == <<intent_pc, intent_response, intent_data>>
fetchVars == <<fetch_pc, fetch_tags, fetch_results, fetch_i, fetched>>
genVars == <<gen_pc, gen_caller, gen_run, batch_start, phase_status, extract_calls, pauses,
             company_dir, phase_files, disk_consolidated, gen_result>>
prereqVars == <<prereq_state, prereq_result, prereq_calls, asking_calls>>
flatVars == <<flat_pc, extracted_data, validated_json>>
restVars == <<intentVars, fetchVars, genVars, prereqVars, flatVars>>
vars == <<agentVars, fillVars, llmVars, tagVars, restVars>>

(***************************************************************************)
(* Strings                                                                 *)
(***************************************************************************)
UpperCase == <<"A","B","C","D","E","F","G","H","I","J","K","L","M",
               "N","O","P","Q","R","S","T","U","V","W","X","Y","Z">>
LowerCase == <<"a","b","c","d","e","f","g","h","i","j","k","l","m",
               "n","o","p","q","r","s","t","u","v","w","x","y","z">>

\* one character of str.lower()
LowerChar(c) ==
    IF \E i \in DOMAIN UpperCase : UpperCase[i] = c
    THEN LowerCase[CHOOSE i \in DOMAIN UpperCase : UpperCase[i] = c]
    ELSE c

\* str.lower()
lower(s) == [i \in 1..Len(s) |-> LowerChar(s[i])]

\* str.replace(' ', '_')
replace_space(s) == [i \in 1..Len(s) |-> IF s[i] = " " THEN "_" ELSE s[i]]

\* x in list
InList(x, l) == \E i \in 1..Len(l) : l[i] = x

\* all sequences over S of length at most n
SeqsUpTo(S, n) == UNION {[1..k -> S] : k \in 0..n}

(***************************************************************************)
(* Tags                                                                    *)
(***************************************************************************)
core_hr == <<"c","o","r","e"," ","h","r">>
payroll == <<"p","a","y","r","o","l","l">>
benefits == <<"b","e","n","e","f","i","t","s">>
compensation == <<"c","o","m","p","e","n","s","a","t","i","o","n">>
absence_management == <<"a","b","s","e","n","c","e"," ","m","a","n","a","g","e","m","e","n","t">>
time_and_labor == <<"t","i","m","e"," ","a","n","d"," ","l","a","b","o","r">>
talent_management == <<"t","a","l","e","n","t"," ","m","a","n","a","g","e","m","e","n","t">>
recruiting == <<"r","e","c","r","u","i","t","i","n","g">>
onboarding == <<"o","n","b","o","a","r","d","i","n","g">>
learning == <<"l","e","a","r","n","i","n","g">>
Payroll_mixed == <<"P","a","y","r","o","l","l">>
BENEFITS_upper == <<"B","E","N","E","F","I","T","S">>
finance == <<"f","i","n","a","n","c","e">>

\* QuestionRetriever.get_all_available_tags
get_all_available_tags ==
    <<core_hr, payroll, benefits, compensation, absence_management,
      time_and_labor, talent_management, recruiting, onboarding, learning>>

\* what a JSON list of tags holds when the LLM put a number where a tag belongs
NotAString == <<"<int>">>

\* validate_and_expand_tags raises (tag.lower() on a non-string)
validate_and_expand_tags_raises(tags, available_tags) ==
    InList(NotAString, tags) \/ InList(NotAString, available_tags)

\* a variant that compares against available_tags as given
validate_and_expand_tags_exact_case(tags, available_tags) ==
    LET tags_lower  == [i \in 1..Len(tags) |-> lower(tags[i])]
        valid_tags  == SelectSeq(tags_lower, LAMBDA tag : InList(tag, available_tags))
    IN  IF valid_tags = <<>> THEN <<core_hr, payroll>> ELSE valid_tags

\* validate_and_expand_tags
validate_and_expand_tags(tags, available_tags) ==
    LET tags_lower      == [i \in 1..Len(tags) |-> lower(tags[i])]
        available_lower == [i \in 1..Len(available_tags) |-> lower(available_tags[i])]
        valid_tags      == SelectSeq(tags_lower, LAMBDA tag : InList(tag, available_lower))
    IN  IF valid_tags = <<>> THEN <<core_hr, payroll>> ELSE valid_tags

(***************************************************************************)
(* validate_and_expand_tags on its own: SpecTags                           *)
(***************************************************************************)
MaxTagInput == 3
TagInputs == {payroll, Payroll_mixed, benefits, BENEFITS_upper, finance}
AvailableChoices == {get_all_available_tags, <<Payroll_mixed, BENEFITS_upper>>, <<>>}

IdleTags == tag_pc = "idle" /\ tag_input = <<>> /\ tag_available = <<>> /\ tag_result = <<>>

TagsInit ==
    /\ tag_pc = "call"
    /\ tag_input \in SeqsUpTo(TagInputs, MaxTagInput)
    /\ tag_available \in AvailableChoices
    /\ tag_result = <<>>

ValidateTags ==
    /\ tag_pc = "call"
    /\ tag_pc' = "done"
    /\ tag_result' = validate_and_expand_tags(tag_input, tag_available)
    /\ UNCHANGED <<tag_input, tag_available>>
    /\ UNCHANGED <<agentVars, fillVars, llmVars, restVars>>

(***************************************************************************)
(* call_llm_api_async (llm_wrapper.py)                                     *)
(***************************************************************************)
max_retries == 3

\* which of prompt / system_prompt / user_prompt the caller passed (non-empty)
LlmArgChoices == {"system+user", "prompt", "user", "system", "none"}

\* lines 64-75: the messages array is built, or ValueError is raised
llm_builds_messages(args) == args \in {"system+user", "prompt", "user"}

\* one chat.completions.create call: it raises, or it answers with a content
\* (None, text ending in '}' or ']', other text) and a finish_reason
ApiOutcomes ==
    {[raises |-> TRUE, content |-> "None", finish_reason |-> "none"]} \cup
    [raises : {FALSE}, content : {"None", "json", "text"}, finish_reason : {"stop", "length", "other"}]

ErrorCallingLLM == "Error calling LLM API: ..."

\* a variant whose except clause re-raises on the last attempt
llm_attempt_reraising(n, o) ==
    IF o.raises \/ (o.content = "None" /\ ~(o.finish_reason = "length" /\ n < max_retries - 1))
    THEN IF n < max_retries - 1 THEN [do |-> "continue", value |-> "none"]
                                ELSE [do |-> "raise", value |-> "none"]
    ELSE IF o.finish_reason = "length" /\ n < max_retries - 1
         THEN [do |-> "continue", value |-> "none"]
    ELSE IF o.content = "json" \/ o.finish_reason = "stop"
         THEN [do |-> "return", value |-> o.content]
    ELSE IF n < max_retries - 1 THEN [do |-> "continue", value |-> "none"]
                                ELSE [do |-> "return", value |-> o.content]

\* lines 78-120: the body of one iteration of the retry loop, attempt n (0-based),
\* when the API call ends with outcome o
llm_attempt(n, o) ==
    IF o.raises
    THEN \* except Exception
         IF n < max_retries - 1 THEN [do |-> "continue", value |-> "none"]
                                ELSE [do |-> "return", value |-> ErrorCallingLLM]
    ELSE IF o.finish_reason = "length" /\ n < max_retries - 1
         THEN [do |-> "continue", value |-> "none"]
    ELSE IF o.content = "None"
         THEN \* result.strip() raises AttributeError inside the try
              IF n < max_retries - 1 THEN [do |-> "continue", value |-> "none"]
                                     ELSE [do |-> "return", value |-> ErrorCallingLLM]
    ELSE IF o.content = "json" \/ o.finish_reason = "stop"
         THEN [do |-> "return", value |-> o.content]
    ELSE IF n < max_retries - 1 THEN [do |-> "continue", value |-> "none"]
                                ELSE [do |-> "return", value |-> o.content]

IdleLlm ==
    /\ llm_pc = "idle" /\ llm_args = "none" /\ attempt = 0
    /\ api_calls = <<>> /\ llm_result = [kind |-> "none", value |-> "none"]

LlmInit ==
    /\ llm_pc = "call"
    /\ llm_args \in LlmArgChoices
    /\ attempt = 0
    /\ api_calls = <<>>
    /\ llm_result = [kind |-> "none", value |-> "none"]

\* lines 59-75
LlmBuildMessages ==
    /\ llm_pc = "call"
    /\ IF llm_builds_messages(llm_args)
       THEN llm_pc' = "loop" /\ UNCHANGED llm_result
       ELSE llm_pc' = "done" /\ llm_result' = [kind |-> "raised", value |-> "ValueError"]
    /\ UNCHANGED <<llm_args, attempt, api_calls>>
    /\ UNCHANGED <<agentVars, fillVars, tagVars, restVars>>

\* lines 77-122: one iteration of for attempt in range(max_retries)
LlmAttempt ==
    /\ llm_pc = "loop"
    /\ \E o \in ApiOutcomes :
         LET r == llm_attempt(attempt, o) IN
         /\ api_calls' = Append(api_calls, o)
         /\ CASE r.do = "continue" ->
                   IF attempt + 1 < max_retries
                   THEN /\ attempt' = attempt + 1
                        /\ UNCHANGED <<llm_pc, llm_result>>
                   ELSE \* line 122, after the loop
                        /\ llm_pc' = "done"
                        /\ llm_result' = [kind |-> "string", value |-> "Error: Max retries exceeded"]
                        /\ UNCHANGED attempt
              [] r.do = "return" ->
                   /\ llm_pc' = "done"
                   /\ llm_result' = [kind |-> "string", value |-> r.value]
                   /\ UNCHANGED attempt
              [] r.do = "raise" ->
                   /\ llm_pc' = "done"
                   /\ llm_result' = [kind |-> "raised", value |-> "Exception"]
                   /\ UNCHANGED attempt
    /\ UNCHANGED llm_args
    /\ UNCHANGED <<agentVars, fillVars, tagVars, restVars>>

(***************************************************************************)
(* Question dicts                                                          *)
(***************************************************************************)
NoKey == "<no key>"       \* the dict has no such key
Null  == "<null>"         \* JSON null / Python None
NotAvailable == "Not Available"

\* qdrant_retriever.py line 79: f"{tag_lower.replace(' ', '_')}_{len(all_questions) + 1}"
QuestionId(tag_lower, n) == <<replace_space(tag_lower), n>>
UnknownId == <<<<"x">>, 0>>       \* an id no question has
NoId == <<<<"-">>, 0>>            \* the answer object has no "id" key

\* qdrant_retriever.py lines 81-93: the dict built for one search result whose
\* metadata names no pillar; it has no "answer" key
question_obj(tag_lower, n, question_text) ==
    [id |-> QuestionId(tag_lower, n),
     categoryID |-> tag_lower,
     questions |-> question_text,
     answer |-> NoKey,
     updated_from_conversation |-> FALSE]

(***************************************************************************)
(* prefill_answers_from_consolidated (answer_filler.py)                    *)
(***************************************************************************)
batch_size == 20
MaxEntries == 2
AnswerValues == {"Yes", Null, NoKey}

\* The LLM's reply to one batch, as call_llm_api_async returns it: text that
\* json.loads rejects (the "Error calling LLM API" string included), or a JSON
\* array of answer objects, each with or without "id" and "answer".
\* The ids offered are the batch's first and last, an unknown one and none.
FillResponses(batch, max_entries) ==
    LET ids == {batch[1].id, batch[Len(batch)].id, UnknownId, NoId}
    IN  {[kind |-> "unparsable", entries |-> <<>>]} \cup
        {[kind |-> "array", entries |-> es] :
            es \in SeqsUpTo([id : ids, answer : AnswerValues], max_entries)}

\* the replies of at most one answer object
AgentFillResponses(batch) == FillResponses(batch, 1)

\* lines 144-157: json.loads and the answer_map comprehension succeed
fill_parses(response) ==
    /\ response.kind = "array"
    /\ \A i \in 1..Len(response.entries) : response.entries[i].id # NoId

\* line 157: answer_map = {ans["id"]: ans for ans in answers_data}; a later entry wins
answer_map(entries, id) ==
    LET hits == {i \in 1..Len(entries) : entries[i].id = id}
    IN  IF hits = {} THEN [id |-> NoId, answer |-> NoKey]
        ELSE entries[CHOOSE i \in hits : \A j \in hits : j <= i]

\* a variant that keeps only the questions the LLM answered
_fill_question_batch_answered_only(questions, response) ==
    IF fill_parses(response)
    THEN LET answered == SelectSeq(questions,
                            LAMBDA q : answer_map(response.entries, q.id).id # NoId)
         IN  [i \in 1..Len(answered) |->
                 LET ans == answer_map(response.entries, answered[i].id)
                 IN  [answered[i] EXCEPT !.answer = IF ans.answer = NoKey THEN "" ELSE ans.answer]]
    ELSE questions

\* _fill_question_batch, lines 137-182: the list it returns (of copies)
_fill_question_batch(questions, response) ==
    IF fill_parses(response)
    THEN [i \in 1..Len(questions) |->
            LET q   == questions[i]
                ans == answer_map(response.entries, q.id)
            IN  IF ans.id # NoId
                THEN [q EXCEPT !.answer = IF ans.answer = NoKey THEN "" ELSE ans.answer]
                ELSE [q EXCEPT !.answer = ""]]
    ELSE \* except Exception: return [q.copy() for q in questions]
         questions

\* range(0, len(questions), batch_size)
NumBatches(n) == (n + batch_size - 1) \div batch_size
Min(a, b) == IF a <= b THEN a ELSE b
\* questions[i:i + batch_size], i 0-based
Batch(questions, i) == SubSeq(questions, i + 1, Min(i + batch_size, Len(questions)))

RECURSIVE fill_batches(_, _, _)
fill_batches(questions, responses, b) ==
    IF b > NumBatches(Len(questions)) THEN <<>>
    ELSE _fill_question_batch(Batch(questions, (b - 1) * batch_size), responses[b])
         \o fill_batches(questions, responses, b + 1)

\* line 37: _prepare_context_summary(consolidated_data) calls .items() on it
prefill_raises(questions, consolidated) == questions # <<>> /\ consolidated = "None"

\* prefill_answers_from_consolidated, lines 30-58, when it does not raise;
\* responses[b] is the LLM's reply to batch b
prefill_answers_from_consolidated(questions, responses) ==
    IF questions = <<>> THEN <<>> ELSE fill_batches(questions, responses, 1)

(***************************************************************************)
(* prefill_answers_from_consolidated on its own: SpecFill                  *)
(***************************************************************************)
MaxFillLen == 21

\* n questions as one fetch_questions_by_tags call returns them
FetchedQuestions(n) == [k \in 1..n |-> question_obj(payroll, k, k)]

NoResult == [raised |-> FALSE, value |-> <<>>]

IdleFill ==
    /\ fill_pc = "idle" /\ fill_questions = <<>> /\ fill_consolidated = "None"
    /\ fill_i = 0 /\ filled_questions = <<>> /\ fill_result = NoResult
    /\ fill_llm_calls = 0

FillInit ==
    /\ fill_pc = "call"
    /\ fill_questions \in {FetchedQuestions(n) : n \in 0..MaxFillLen}
    /\ fill_consolidated \in {"data", "None"}
    /\ fill_i = 0
    /\ filled_questions = <<>>
    /\ fill_result = NoResult
    /\ fill_llm_calls = 0

\* lines 30-41
FillBegin ==
    /\ fill_pc = "call"
    /\ IF fill_questions = <<>>
       THEN fill_pc' = "done" /\ fill_result' = [raised |-> FALSE, value |-> <<>>]
       ELSE IF prefill_raises(fill_questions, fill_consolidated)
       THEN fill_pc' = "done" /\ fill_result' = [raised |-> TRUE, value |-> <<>>]
       ELSE fill_pc' = "loop" /\ UNCHANGED fill_result
    /\ UNCHANGED <<fill_questions, fill_consolidated, fill_i, filled_questions, fill_llm_calls>>
    /\ UNCHANGED <<agentVars, llmVars, tagVars, restVars>>

\* lines 43-55: one iteration of the batch loop
FillBatch ==
    /\ fill_pc = "loop"
    /\ fill_i < Len(fill_questions)
    /\ \E response \in FillResponses(Batch(fill_questions, fill_i), MaxEntries) :
         filled_questions' = filled_questions \o
             _fill_question_batch(Batch(fill_questions, fill_i), response)
    /\ fill_llm_calls' = fill_llm_calls + 1
    /\ fill_i' = fill_i + batch_size
    /\ UNCHANGED <<fill_pc, fill_questions, fill_consolidated, fill_result>>
    /\ UNCHANGED <<agentVars, llmVars, tagVars, restVars>>

\* lines 57-58
FillReturn ==
    /\ fill_pc = "loop"
    /\ fill_i >= Len(fill_questions)
    /\ fill_pc' = "done"
    /\ fill_result' = [raised |-> FALSE, value |-> filled_questions]
    /\ UNCHANGED <<fill_questions, fill_consolidated, fill_i, filled_questions, fill_llm_calls>>
    /\ UNCHANGED <<agentVars, llmVars, tagVars, restVars>>

(***************************************************************************)
(* QuestionRetriever.fetch_questions_by_tags (qdrant_retriever.py)         *)
(***************************************************************************)
\* What one requests.post ends with: results (their texts, in order; texts are
\* numbered), a requests.RequestException, or a body whose shape makes the loop
\* raise something else (data.get on a list, metadata.get on a string).
ApiResults ==
    {[kind |-> "ok", texts |-> ts] : ts \in {<<>>, <<1>>, <<2>>, <<1, 2>>, <<2, 2>>}} \cup
    {[kind |-> "request_error", texts |-> <<>>], [kind |-> "bad_data", texts |-> <<>>]}

TextsOf(qs) == {qs[i].questions : i \in 1..Len(qs)}

\* a variant of the results loop without the question_texts_seen test
RECURSIVE add_results_unseen(_, _, _)
add_results_unseen(all, tag_lower, texts) ==
    IF texts = <<>> THEN all
    ELSE add_results_unseen(Append(all, question_obj(tag_lower, Len(all) + 1, Head(texts))),
                            tag_lower, Tail(texts))

\* lines 68-94: the loop over one tag's results; question_texts_seen holds
\* exactly the texts of all_questions
RECURSIVE add_results(_, _, _)
add_results(all, tag_lower, texts) ==
    IF texts = <<>> THEN all
    ELSE IF Head(texts) \in TextsOf(all)
         THEN add_results(all, tag_lower, Tail(texts))
         ELSE add_results(Append(all, question_obj(tag_lower, Len(all) + 1, Head(texts))),
                          tag_lower, Tail(texts))

\* lines 38-98: the loop over the tags, from tag number i on
RECURSIVE fetch_loop(_, _, _, _)
fetch_loop(tags, results, i, all) ==
    IF i > Len(tags) THEN [failed |-> FALSE, questions |-> all]
    ELSE IF tags[i] = NotAString \/ results[i].kind = "bad_data"
         THEN [failed |-> TRUE, questions |-> <<>>]
    ELSE IF results[i].kind = "request_error"
         THEN fetch_loop(tags, results, i + 1, all)
    ELSE fetch_loop(tags, results, i + 1, add_results(all, lower(tags[i]), results[i].texts))

\* fetch_questions_by_tags, lines 31-107; results[i] is what the API call for
\* tags[i] ends with
fetch_questions_by_tags(tags, results) == fetch_loop(tags, results, 1, <<>>).questions

(***************************************************************************)
(* Generation of consolidated.json: generate_all_phases (app.py) and       *)
(* _get_or_generate_consolidated (conversational_agent.py): SpecGen        *)
(*                                                                         *)
(* Both write output/<company>/phase<N>.json and consolidated.json.  What  *)
(* an extraction returns is stamped with the number of the run that made   *)
(* it, so that data from different runs differ.                            *)
(***************************************************************************)
MaxRuns == 2
Phases == 1..9
gen_batch_size == 3

\* a variant with batches of two phases
batch_phases_of_two(start) == (start + 1)..Min(start + 2, 9)

\* all_phases[batch_start:batch_start + batch_size] (app.py line 197);
\* range(batch_start + 1, min(batch_start + batch_size + 1, 10)) (agent line 222)
batch_phases(start) == (start + 1)..Min(start + gen_batch_size, 9)

\* if batch_start + batch_size < 9: await asyncio.sleep(2)
pause_after(start) == start + gen_batch_size < 9

\* a variant of process_single_phase that lets the exception out; gather
\* (return_exceptions=True) then hands it back and no result is recorded
process_single_phase_uncaught(raises) == IF raises THEN "pending" ELSE "completed"

\* process_single_phase, app.py lines 84-116: the status it returns
process_single_phase(raises) == IF raises THEN "failed" ELSE "completed"

\* a variant that consolidates only when all nine phase files exist
consolidate_when_complete(files) ==
    IF \A p \in Phases : files[p] # 0 THEN files ELSE [p \in Phases |-> 0]

\* the consolidation loop (app.py lines 266-272, agent lines 248-254): one section
\* per phase file that exists, holding the file's data
consolidate(files) == [p \in Phases |-> files[p]]

\* a variant that never finds consolidated.json
consolidated_file_exists_never(disk) == FALSE

\* consolidated_file.exists()
consolidated_file_exists(disk) == disk.exists

NoSections == [p \in Phases |-> 0]
NoGenResult == [status |-> "none", data |-> NoSections]

IdleGen ==
    /\ gen_pc = "idle" /\ gen_caller = "none" /\ gen_run = 0 /\ batch_start = 0
    /\ phase_status = [p \in Phases |-> "pending"]
    /\ extract_calls = [p \in Phases |-> 0]
    /\ pauses = <<>>
    /\ company_dir = FALSE
    /\ phase_files = NoSections
    /\ disk_consolidated = [exists |-> FALSE, sections |-> NoSections]
    /\ gen_result = NoGenResult

genOthers == UNCHANGED <<agentVars, fillVars, llmVars, tagVars, intentVars, fetchVars, prereqVars, flatVars>>

\* app.py lines 133-182 and agent lines 210-213: consolidated.json exists and is
\* loaded; no phase is processed
GenLoadExisting ==
    /\ gen_pc \in {"idle", "done"}
    /\ gen_run < MaxRuns
    /\ consolidated_file_exists(disk_consolidated)
    /\ \E caller \in {"app", "agent"} : gen_caller' = caller
    /\ gen_run' = gen_run + 1
    /\ gen_pc' = "done"
    /\ phase_status' = [p \in Phases |-> "pending"]
    /\ extract_calls' = [p \in Phases |-> 0]
    /\ pauses' = <<>>
    /\ gen_result' = [status |-> "loaded", data |-> disk_consolidated.sections]
    /\ UNCHANGED <<batch_start, company_dir, phase_files, disk_consolidated>>
    /\ genOthers

\* app.py lines 189-194 and agent lines 215-220: there is no consolidated.json;
\* the agent creates the company directory
GenBegin ==
    /\ gen_pc \in {"idle", "done"}
    /\ gen_run < MaxRuns
    /\ ~consolidated_file_exists(disk_consolidated)
    /\ \E caller \in {"app", "agent"} :
         /\ gen_caller' = caller
         /\ company_dir' = (company_dir \/ caller = "agent")
    /\ gen_run' = gen_run + 1
    /\ gen_pc' = "batch"
    /\ batch_start' = 0
    /\ phase_status' = [p \in Phases |-> "pending"]
    /\ extract_calls' = [p \in Phases |-> 0]
    /\ pauses' = <<>>
    /\ gen_result' = NoGenResult
    /\ UNCHANGED <<phase_files, disk_consolidated>>
    /\ genOthers

\* app.py lines 196-203: the batch's process_single_phase tasks are gathered;
\* agent lines 221-234: the batch's coroutines are created
GenStartBatch ==
    /\ gen_pc = "batch"
    /\ phase_status' = [p \in Phases |->
            IF p \in batch_phases(batch_start)
            THEN (IF gen_caller = "app" THEN "running" ELSE "created")
            ELSE phase_status[p]]
    /\ gen_pc' = "await"
    /\ UNCHANGED <<gen_caller, gen_run, batch_start, extract_calls, pauses, company_dir,
                   phase_files, disk_consolidated, gen_result>>
    /\ genOthers

\* process_single_phase, app.py lines 84-116, for one gathered phase: the
\* extraction returns and the phase file is written, or it raises
GenPhaseFinish ==
    /\ gen_pc = "await" /\ gen_caller = "app"
    /\ \E p \in Phases, raises \in BOOLEAN :
         /\ phase_status[p] = "running"
         /\ phase_status' = [phase_status EXCEPT ![p] = process_single_phase(raises)]
         /\ extract_calls' = [extract_calls EXCEPT ![p] = @ + 1]
         /\ IF raises
            THEN UNCHANGED <<company_dir, phase_files>>
            ELSE /\ company_dir' = TRUE
                 /\ phase_files' = [phase_files EXCEPT ![p] = gen_run]
    /\ UNCHANGED <<gen_pc, gen_caller, gen_run, batch_start, pauses, disk_consolidated, gen_result>>
    /\ genOthers

\* agent lines 236-241: the next coroutine of the batch is awaited and its data
\* written, or its exception leaves _get_or_generate_consolidated
GenAwaitTask ==
    /\ gen_pc = "await" /\ gen_caller = "agent"
    /\ \E p \in Phases, raises \in BOOLEAN :
         /\ phase_status[p] = "created"
         /\ \A q \in Phases : phase_status[q] = "created" => p <= q
         /\ extract_calls' = [extract_calls EXCEPT ![p] = @ + 1]
         /\ IF raises
            THEN /\ phase_status' = [phase_status EXCEPT ![p] = "failed"]
                 /\ gen_pc' = "done"
                 /\ gen_result' = [status |-> "raised", data |-> NoSections]
                 /\ UNCHANGED phase_files
            ELSE /\ phase_status' = [phase_status EXCEPT ![p] = "completed"]
                 /\ phase_files' = [phase_files EXCEPT ![p] = gen_run]
                 /\ UNCHANGED <<gen_pc, gen_result>>
    /\ UNCHANGED <<gen_caller, gen_run, batch_start, pauses, company_dir, disk_consolidated>>
    /\ genOthers

\* app.py lines 205-210 and agent lines 243-245: the batch is over
GenBatchEnd ==
    /\ gen_pc = "await"
    /\ \A p \in Phases : phase_status[p] \notin {"created", "running"}
    /\ IF pause_after(batch_start)
       THEN gen_pc' = "sleep" /\ pauses' = Append(pauses, batch_start)
       ELSE IF batch_start + gen_batch_size < 9
       THEN gen_pc' = "next" /\ UNCHANGED pauses
       ELSE gen_pc' = "consolidate" /\ UNCHANGED pauses
    /\ UNCHANGED <<gen_caller, gen_run, batch_start, phase_status, extract_calls, company_dir,
                   phase_files, disk_consolidated, gen_result>>
    /\ genOthers

\* asyncio.sleep(2) is over: the next value of range(0, 9, batch_size)
GenNextBatch ==
    /\ gen_pc \in {"sleep", "next"}
    /\ batch_start' = batch_start + gen_batch_size
    /\ gen_pc' = "batch"
    /\ UNCHANGED <<gen_caller, gen_run, phase_status, extract_calls, pauses, company_dir,
                   phase_files, disk_consolidated, gen_result>>
    /\ genOthers

\* generate_consolidated_json, app.py lines 261-281, and the rest of
\* generate_all_phases, lines 212-258; agent lines 247-261
GenConsolidate ==
    /\ gen_pc = "consolidate"
    /\ IF company_dir
       THEN /\ disk_consolidated' = [exists |-> TRUE, sections |-> consolidate(phase_files)]
            /\ gen_result' = [status |-> IF gen_caller = "app" THEN "summary" ELSE "returned",
                              data |-> consolidate(phase_files)]
       ELSE \* open(consolidated_file, 'w') raises; status "error", the summary is returned
            /\ UNCHANGED disk_consolidated
            /\ gen_result' = [status |-> "summary", data |-> NoSections]
    /\ gen_pc' = "done"
    /\ UNCHANGED <<gen_caller, gen_run, batch_start, phase_status, extract_calls, pauses,
                   company_dir, phase_files>>
    /\ genOthers

(***************************************************************************)
(* PrerequisiteManager (prerequisite_questions.py): SpecPrereq             *)
(***************************************************************************)
MaxPrereqCalls == 10
UserAnswers == {"yes", "not yet"}

\* HR_PAYROLL_PREREQUISITES, lines 15-107, flattened as _select_relevant_questions
\* does: the ids and categories of the nine questions
HR_PAYROLL_PREREQUISITES ==
    <<[id |-> "prereq_es_001",  category |-> "Enterprise Structure"],
      [id |-> "prereq_es_002",  category |-> "Enterprise Structure"],
      [id |-> "prereq_cal_001", category |-> "Calendars & Time"],
      [id |-> "prereq_cal_002", category |-> "Calendars & Time"],
      [id |-> "prereq_ws_001",  category |-> "Workforce Structures"],
      [id |-> "prereq_ws_002",  category |-> "Workforce Structures"],
      [id |-> "prereq_pay_001", category |-> "Payroll Configuration"],
      [id |-> "prereq_pay_002", category |-> "Payroll Configuration"],
      [id |-> "prereq_sec_001", category |-> "Security & Access"]>>

NoCategory == "None"
NoMessage == "<none>"
NoProgress == <<0, 0>>

\* PrerequisiteManager.__init__, lines 115-123; answers maps the ids answered
\* so far to the answers
PrereqNew ==
    [phase |-> "not_started", questions |-> <<>>, answers |-> [i \in {} |-> NoMessage],
     current_category |-> NoCategory, completed_categories |-> <<>>]

NoPrereqResult == [called |-> FALSE, is_complete |-> FALSE, progress |-> NoProgress,
                   user_message |-> NoMessage]

\* a variant without the test of the phase
process_answer_unguarded(st, user_message) ==
    LET answered_count == Cardinality(DOMAIN st.answers) IN
    IF answered_count >= Len(st.questions)
    THEN [state |-> [st EXCEPT !.phase = "completed"],
          is_complete |-> TRUE, progress |-> <<answered_count, Len(st.questions)>>]
    ELSE LET current_question == st.questions[answered_count + 1]
             next_index == answered_count + 1
         IN  [state |-> [st EXCEPT
                  !.answers = [i \in DOMAIN st.answers \cup {current_question.id} |->
                                  IF i = current_question.id THEN user_message ELSE st.answers[i]],
                  !.phase = IF next_index >= Len(st.questions) THEN "completed" ELSE @],
              is_complete |-> next_index >= Len(st.questions),
              progress |-> <<next_index, Len(st.questions)>>]

\* a variant that always answers the first question
process_answer_first(st, user_message) ==
    IF st.phase # "asking"
    THEN [state |-> st, is_complete |-> TRUE, progress |-> NoProgress]
    ELSE [state |-> [st EXCEPT
              !.answers = [i \in DOMAIN st.answers \cup {st.questions[1].id} |->
                              IF i = st.questions[1].id THEN user_message ELSE st.answers[i]]],
          is_complete |-> FALSE,
          progress |-> <<Cardinality(DOMAIN st.answers) + 1, Len(st.questions)>>]

\* process_answer, lines 235-322: the state it leaves and what it returns
process_answer(st, user_message) ==
    LET answered_count == Cardinality(DOMAIN st.answers) IN
    IF st.phase # "asking"
    THEN [state |-> st, is_complete |-> TRUE, progress |-> NoProgress]
    ELSE IF answered_count >= Len(st.questions)
    THEN [state |-> [st EXCEPT !.phase = "completed"],
          is_complete |-> TRUE, progress |-> <<answered_count, Len(st.questions)>>]
    ELSE LET current_question == st.questions[answered_count + 1]
             category_changed == st.current_category # current_question.category
                                     /\ answered_count > 0
             next_index == answered_count + 1
             last == next_index >= Len(st.questions)
         IN  [state |-> [st EXCEPT
                  !.answers = [i \in DOMAIN st.answers \cup {current_question.id} |->
                                  IF i = current_question.id THEN user_message ELSE st.answers[i]],
                  !.completed_categories =
                      IF category_changed THEN Append(@, st.current_category) ELSE @,
                  !.current_category =
                      IF category_changed THEN current_question.category ELSE @,
                  !.phase = IF last THEN "completed" ELSE @],
              is_complete |-> last,
              progress |-> <<next_index, Len(st.questions)>>]

IdlePrereq ==
    /\ prereq_state = PrereqNew
    /\ prereq_result = NoPrereqResult
    /\ prereq_calls = 0
    /\ asking_calls = 0

prereqOthers == UNCHANGED <<agentVars, fillVars, llmVars, tagVars, intentVars, fetchVars, genVars, flatVars>>

\* initialize_prerequisites, lines 125-180: the intent is HR/Payroll and the nine
\* questions are selected, or it is not (or the tags raise) and the phase is
\* 'completed' at once
InitializePrerequisites ==
    /\ prereq_state.phase = "not_started"
    /\ \E is_hr_payroll \in BOOLEAN :
         prereq_state' =
            IF is_hr_payroll
            THEN [prereq_state EXCEPT !.questions = HR_PAYROLL_PREREQUISITES,
                                      !.phase = "asking",
                                      !.current_category = HR_PAYROLL_PREREQUISITES[1].category]
            ELSE [prereq_state EXCEPT !.phase = "completed"]
    /\ UNCHANGED <<prereq_result, prereq_calls, asking_calls>>
    /\ prereqOthers

\* one process_answer call
ProcessAnswer ==
    /\ prereq_calls < MaxPrereqCalls
    /\ \E user_message \in UserAnswers :
         LET r == process_answer(prereq_state, user_message) IN
         /\ prereq_state' = r.state
         /\ prereq_result' = [called |-> TRUE, is_complete |-> r.is_complete,
                              progress |-> r.progress, user_message |-> user_message]
    /\ prereq_calls' = prereq_calls + 1
    /\ asking_calls' = IF prereq_state.phase = "asking" THEN asking_calls + 1 ELSE asking_calls
    /\ prereqOthers

(***************************************************************************)
(* BasePhaseExtractor._validate_extracted_data (base_extractor.py):        *)
(* SpecFlat                                                                *)
(*                                                                         *)
(* A JSON value is [t, s, items]: t is "null", "num", "str", "dict" or     *)
(* "list"; s is the text of a number or string, character by character;    *)
(* items are the <<key, value>> entries of a dict in insertion order, or   *)
(* the elements of a list, each paired with its index as the key.          *)
(***************************************************************************)
MaxFlatEntries == 2

JsonNull == [t |-> "null", s |-> <<>>, items |-> <<>>]
JsonNum(text) == [t |-> "num", s |-> text, items |-> <<>>]
JsonStr(text) == [t |-> "str", s |-> text, items |-> <<>>]
JsonDict(entries) == [t |-> "dict", s |-> <<>>, items |-> entries]
JsonList(elements) ==
    [t |-> "list", s |-> <<>>,
     items |-> [i \in 1..Len(elements) |-> <<IF i = 1 THEN <<"0">> ELSE <<"1">>, elements[i]>>]]

NotAvailableText == <<"N","o","t"," ","A","v","a","i","l","a","b","l","e">>
\* str(value) of a list: some text
ListRepr == <<"[", "]">>

\* key.startswith('_')
startswith_underscore(key) == Len(key) > 0 /\ key[1] = "_"

\* f"{parent_key}{separator}{key}" if parent_key else key
new_key(parent_key, key) == IF parent_key # <<>> THEN parent_key \o <<"_">> \o key ELSE key

\* ', '.join(value) of a list of strings, from element i on
RECURSIVE join_strings(_, _)
join_strings(items, i) ==
    IF i > Len(items) THEN <<>>
    ELSE IF i = Len(items) THEN items[i][2].s
    ELSE items[i][2].s \o <<",", " ">> \o join_strings(items, i + 1)

\* dict.update for one key: the value is replaced where the key is, or the entry added
dict_set(d, key, value) ==
    IF \E i \in 1..Len(d) : d[i][1] = key
    THEN [i \in 1..Len(d) |-> IF d[i][1] = key THEN <<key, value>> ELSE d[i]]
    ELSE Append(d, <<key, value>>)

\* flattened.update(other)
RECURSIVE dict_update(_, _, _)
dict_update(d, other, i) ==
    IF i > Len(other) THEN d
    ELSE dict_update(dict_set(d, other[i][1], other[i][2]), other, i + 1)

\* lines 322-331: what a value that is no dict and no list of dicts is stored as
flat_value(value) ==
    IF value.t = "list"
    THEN IF \A i \in 1..Len(value.items) : value.items[i][2].t = "str"
         THEN IF value.items # <<>> THEN JsonStr(join_strings(value.items, 1))
                                    ELSE JsonStr(NotAvailableText)
         ELSE JsonStr(ListRepr)
    ELSE IF value.t = "null" THEN JsonStr(NotAvailableText) ELSE value

\* flatten_json, lines 310-333: the loop over data.items() from entry i on, and the
\* loop over a list of dicts from element j on
RECURSIVE flatten_json(_, _, _, _)
RECURSIVE flatten_list(_, _, _, _)
flatten_json(data, parent_key, i, flattened) ==
    IF i > Len(data) THEN flattened
    ELSE LET key   == data[i][1]
             value == data[i][2]
             nk    == new_key(parent_key, key)
         IN  IF startswith_underscore(key)
             THEN flatten_json(data, parent_key, i + 1, flattened)
             ELSE IF value.t = "dict"
             THEN flatten_json(data, parent_key, i + 1,
                      dict_update(flattened, flatten_json(value.items, nk, 1, <<>>), 1))
             ELSE IF value.t = "list" /\ value.items # <<>>
                       /\ \A j \in 1..Len(value.items) : value.items[j][2].t = "dict"
             THEN flatten_json(data, parent_key, i + 1,
                      flatten_list(value.items, nk, 1, flattened))
             ELSE flatten_json(data, parent_key, i + 1,
                      dict_set(flattened, nk, flat_value(value)))
flatten_list(items, nk, j, flattened) ==
    IF j > Len(items) THEN flattened
    ELSE flatten_list(items, nk, j + 1,
             dict_update(flattened,
                 flatten_json(items[j][2].items, nk \o <<"_">> \o items[j][1], 1, <<>>), 1))

\* _validate_extracted_data, line 335
_validate_extracted_data(data) == flatten_json(data.items, <<>>, 1, <<>>)

\* ---- bounded nested inputs
FlatKeys == {<<"a">>, <<"b">>, <<"_", "b">>, <<"a", "_", "b">>}
FlatLeaves == {JsonNull, JsonNum(<<"1">>), JsonStr(<<"x">>)}
InnerDicts ==
    {JsonDict(<<>>)} \cup
    {JsonDict(<<<<k, v>>>>) : k \in {<<"b">>, <<"_", "b">>}, v \in {JsonNull, JsonNum(<<"2">>)}}
FlatLists ==
    {JsonList(<<>>), JsonList(<<JsonStr(<<"x">>)>>),
     JsonList(<<JsonStr(<<"x">>), JsonStr(<<"y">>)>>),
     JsonList(<<JsonNum(<<"1">>), JsonStr(<<"x">>)>>), JsonList(<<JsonNull>>)} \cup
    {JsonList(<<d>>) : d \in InnerDicts}
FlatValues == FlatLeaves \cup InnerDicts \cup FlatLists
\* the dicts of at most n entries, keys distinct
FlatInputs(n) ==
    {JsonDict(es) : es \in {e \in SeqsUpTo(FlatKeys \X FlatValues, n) :
                               \A i, j \in 1..Len(e) : i # j => e[i][1] # e[j][1]}}

IdleFlat == flat_pc = "idle" /\ extracted_data = JsonDict(<<>>) /\ validated_json = <<>>

FlatInit ==
    /\ flat_pc = "call"
    /\ extracted_data \in FlatInputs(MaxFlatEntries)
    /\ validated_json = <<>>

\* _validate_extracted_data, lines 307-335
ValidateExtractedData ==
    /\ flat_pc = "call"
    /\ flat_pc' = "done"
    /\ validated_json' = _validate_extracted_data(extracted_data)
    /\ UNCHANGED extracted_data
    /\ UNCHANGED <<agentVars, fillVars, llmVars, tagVars, intentVars, fetchVars, genVars, prereqVars>>

(***************************************************************************)
(* fetch_questions_by_tags on its own: SpecFetch                           *)
(***************************************************************************)
MaxFetchTags == 2
FetchTagChoices == {core_hr, payroll, Payroll_mixed, NotAString}

IdleFetch ==
    /\ fetch_pc = "idle" /\ fetch_tags = <<>> /\ fetch_results = <<>>
    /\ fetch_i = 1 /\ fetched = <<>>

FetchInit ==
    /\ fetch_pc = "loop"
    /\ fetch_tags \in SeqsUpTo(FetchTagChoices, MaxFetchTags)
    /\ fetch_results \in [1..Len(fetch_tags) -> ApiResults]
    /\ fetch_i = 1
    /\ fetched = <<>>

\* lines 38-98: one iteration of the loop over the tags
FetchTag ==
    /\ fetch_pc = "loop"
    /\ fetch_i <= Len(fetch_tags)
    /\ IF fetch_tags[fetch_i] = NotAString \/ fetch_results[fetch_i].kind = "bad_data"
       THEN \* lines 103-107: except Exception: return []
            /\ fetch_pc' = "done"
            /\ fetched' = <<>>
            /\ UNCHANGED fetch_i
       ELSE /\ fetched' = IF fetch_results[fetch_i].kind = "request_error"
                          THEN fetched
                          ELSE add_results(fetched, lower(fetch_tags[fetch_i]),
                                           fetch_results[fetch_i].texts)
            /\ fetch_i' = fetch_i + 1
            /\ UNCHANGED fetch_pc
    /\ UNCHANGED <<fetch_tags, fetch_results>>
    /\ UNCHANGED <<agentVars, fillVars, llmVars, tagVars, intentVars, genVars, prereqVars, flatVars>>

\* lines 100-101
FetchReturn ==
    /\ fetch_pc = "loop"
    /\ fetch_i > Len(fetch_tags)
    /\ fetch_pc' = "done"
    /\ UNCHANGED <<fetch_tags, fetch_results, fetch_i, fetched>>
    /\ UNCHANGED <<agentVars, fillVars, llmVars, tagVars, intentVars, genVars, prereqVars, flatVars>>

(***************************************************************************)
(* extract_intent_tags (intent_analyzer.py)                                *)
(***************************************************************************)
\* the tag lists an LLM reply may hold
LlmTagLists ==
    {<<>>, <<payroll>>, <<Payroll_mixed>>, <<finance>>, <<finance, benefits>>, <<NotAString>>}

\* The LLM's reply as call_llm_api_async returns it: text json.loads rejects, JSON
\* that is no object, or an object with or without a "tags" list.
IntentResponses ==
    {[kind |-> "unparsable", has_tags |-> FALSE, tags |-> <<>>],
     [kind |-> "not_dict", has_tags |-> FALSE, tags |-> <<>>],
     [kind |-> "dict", has_tags |-> FALSE, tags |-> <<>>]} \cup
    {[kind |-> "dict", has_tags |-> TRUE, tags |-> ts] : ts \in LlmTagLists}

\* extract_intent_tags, lines 61-108: the dict it returns
extract_intent_tags(response) ==
    IF response.kind = "unparsable"
    THEN [has_tags |-> TRUE, tags |-> <<core_hr, payroll>>]
    ELSE IF response.kind = "not_dict" \/ InList(NotAString, response.tags)
    THEN [has_tags |-> TRUE, tags |-> <<core_hr>>]
    ELSE IF response.has_tags
    THEN [has_tags |-> TRUE, tags |-> [i \in 1..Len(response.tags) |-> lower(response.tags[i])]]
    ELSE [has_tags |-> FALSE, tags |-> <<>>]

\* intent_data.get("tags", [])
intent_tags(intent_result) == IF intent_result.has_tags THEN intent_result.tags ELSE <<>>

(***************************************************************************)
(* extract_intent_tags on its own: SpecIntent                              *)
(***************************************************************************)
MaxIntentTags == 2
IntentTagChoices == {core_hr, payroll, Payroll_mixed, benefits, BENEFITS_upper, finance, NotAString}

\* The LLM's reply: as IntentResponses, with every tag list of up to
\* MaxIntentTags entries
AllIntentResponses ==
    {[kind |-> "unparsable", has_tags |-> FALSE, tags |-> <<>>],
     [kind |-> "not_dict", has_tags |-> FALSE, tags |-> <<>>],
     [kind |-> "dict", has_tags |-> FALSE, tags |-> <<>>]} \cup
    {[kind |-> "dict", has_tags |-> TRUE, tags |-> ts] :
        ts \in SeqsUpTo(IntentTagChoices, MaxIntentTags)}

NoIntent == [has_tags |-> FALSE, tags |-> <<>>]

IdleIntent ==
    /\ intent_pc = "idle"
    /\ intent_response = [kind |-> "unparsable", has_tags |-> FALSE, tags |-> <<>>]
    /\ intent_data = NoIntent

IntentInit ==
    /\ intent_pc = "call"
    /\ intent_response \in AllIntentResponses
    /\ intent_data = NoIntent

\* extract_intent_tags, lines 61-108, once call_llm_api_async has returned
ExtractIntent ==
    /\ intent_pc = "call"
    /\ intent_pc' = "done"
    /\ intent_data' = extract_intent_tags(intent_response)
    /\ UNCHANGED intent_response
    /\ UNCHANGED <<agentVars, fillVars, llmVars, tagVars, fetchVars, genVars, prereqVars, flatVars>>

IdleRest == IdleIntent /\ IdleFetch /\ IdleGen /\ IdlePrereq /\ IdleFlat

(***************************************************************************)
(* ConversationalAgent (conversational_agent.py)                           *)
(***************************************************************************)
MaxMessages == 1
ListRefs == {"all0", "disp0", "filled"}
EmptyTemp == [tags |-> <<>>, questions |-> <<>>, info |-> "empty"]
NoCall == [op |-> "none", result |-> "none", exception |-> "none"]

AllQuestions == [i \in 1..Len(lists[all_questions]) |-> objects[lists[all_questions][i]]]
DisplayedQuestions ==
    [i \in 1..Len(lists[displayed_questions]) |-> objects[lists[displayed_questions][i]]]

\* _organize_questions_by_category, lines 506-516: category -> the displayed dicts
_organize_questions_by_category(displayed, objs) ==
    [c \in {objs[displayed[i]].categoryID : i \in 1..Len(displayed)} |->
        SelectSeq(displayed, LAMBDA r : objs[r].categoryID = c)]

\* a variant of the merge that replaces the two lists by the new questions
merge_new_questions_replacing(filled, k, existing, ls, objs, all_ref, displayed_ref) ==
    LET refs == [i \in 1..Len(filled) |-> Len(objs) + i]
        ls1  == [ls EXCEPT ![all_ref] = refs]
    IN  [lists |-> [ls1 EXCEPT ![displayed_ref] = refs], objects |-> objs \o filled]

\* lines 390-396: the merge loop of _fetch_and_add_new_questions from question
\* number k on; existing is the set computed once before the loop, and the two
\* appends go to whatever list objects the two state entries name
RECURSIVE merge_new_questions(_, _, _, _, _, _, _)
merge_new_questions(filled, k, existing, ls, objs, all_ref, displayed_ref) ==
    IF k > Len(filled) THEN [lists |-> ls, objects |-> objs]
    ELSE IF filled[k].questions \in existing
         THEN merge_new_questions(filled, k + 1, existing, ls, objs, all_ref, displayed_ref)
         ELSE LET objs1 == Append(objs, filled[k])
                  r     == Len(objs1)
                  ls1   == [ls EXCEPT ![all_ref] = Append(@, r)]
                  ls2   == [ls1 EXCEPT ![displayed_ref] = Append(@, r)]
              IN  merge_new_questions(filled, k + 1, existing, ls2, objs1, all_ref, displayed_ref)

\* not q.get("answer") or q.get("answer") == "Not Available"
needs_answer(q) == q.answer \in {NoKey, Null, "", NotAvailable}

\* The LLM's reply to _batch_update_answers: text json.loads rejects, or a JSON
\* array of updates naming the first or last displayed question or no question.
UpdateResponses(displayed, objs) ==
    LET ids == {objs[displayed[1]].id, objs[displayed[Len(displayed)]].id, UnknownId}
    IN  {[kind |-> "unparsable", updates |-> <<>>]} \cup
        {[kind |-> "array", updates |-> us] :
            us \in {<<>>} \cup {<<u>> : u \in [question_id : ids, new_answer : {"New", Null}]}}

\* lines 472-486: the updates applied from update number k on
RECURSIVE apply_updates(_, _, _, _)
apply_updates(updates, k, displayed, objs) ==
    IF k > Len(updates) THEN objs
    ELSE LET u    == updates[k]
             hits == {i \in 1..Len(displayed) : objs[displayed[i]].id = u.question_id}
         IN  IF u.new_answer \in {Null, ""} \/ hits = {}
             THEN apply_updates(updates, k + 1, displayed, objs)
             ELSE LET first == CHOOSE i \in hits : \A j \in hits : i <= j
                      r     == displayed[first]
                  IN  apply_updates(updates, k + 1, displayed,
                          [objs EXCEPT ![r] = [@ EXCEPT !.answer = u.new_answer,
                                                        !.updated_from_conversation = TRUE]])

\* _batch_update_answers, lines 461-492, once the LLM has replied
_batch_update_answers(response, displayed, objs) ==
    IF response.kind = "array" THEN apply_updates(response.updates, 1, displayed, objs)
    ELSE objs

\* _get_sample_questions(5), line 625: q.get('answer', 'N/A')[:100] raises
\* TypeError when the answer is None
sample_size == 5
_get_sample_questions_raises(displayed, objs) ==
    \E i \in 1..Min(sample_size, Len(displayed)) : objs[displayed[i]].answer = Null

\* The LLM's reply to _analyze_message_context: text json.loads rejects, or the
\* analysis object.
AnalysisResponses ==
    {[kind |-> "unparsable", needs_new_questions |-> FALSE, new_tags |-> <<>>,
      extracted_info |-> "empty"]} \cup
    [kind : {"dict"}, needs_new_questions : BOOLEAN,
     new_tags : LlmTagLists,
     extracted_info : {"empty", "facts", "not_a_dict"}]

\* _analyze_message_context, lines 322-352: the analysis it returns
_analyze_message_context(response) ==
    IF response.kind = "unparsable"
    THEN [needs_new_questions |-> FALSE, new_tags |-> <<>>, extracted_info |-> "empty"]
    ELSE [needs_new_questions |-> response.needs_new_questions,
          new_tags |-> response.new_tags,
          extracted_info |-> response.extracted_info]

\* lines 368-370: current_tags with the valid tags it lacks appended, from tag k on
RECURSIVE add_current_tags(_, _, _)
add_current_tags(cur, valid_tags, k) ==
    IF k > Len(valid_tags) THEN cur
    ELSE add_current_tags(IF InList(valid_tags[k], cur) THEN cur ELSE Append(cur, valid_tags[k]),
                          valid_tags, k + 1)

\* a variant of the except clause that leaves phase untouched
initialize_except_silent(ph) == ph

\* initialize, lines 130-134: the except clause sets the phase
initialize_except(ph) == "error"

\* a variant of the except clause that catches ValueError only
process_message_except_narrow(exc) ==
    IF exc = "ValueError"
    THEN [op |-> "process_message", result |-> "error_message", exception |-> exc]
    ELSE [op |-> "process_message", result |-> "raised", exception |-> exc]

\* process_message, lines 198-202: except Exception returns the error message
process_message_except(exc) ==
    [op |-> "process_message", result |-> "error_message", exception |-> exc]

IdleAgent ==
    /\ agent = "None"
    /\ phase = "not_started"
    /\ consolidated_data = "None"
    /\ current_tags = <<>>
    /\ all_questions = "all0"
    /\ displayed_questions = "disp0"
    /\ lists = [r \in ListRefs |-> <<>>]
    /\ objects = <<>>
    /\ categories = <<>>
    /\ conversation_history = <<>>
    /\ extracted_facts = {}
    /\ init_pc = "idle"
    /\ pm_pc = "idle"
    /\ temp = EmptyTemp
    /\ last_call = NoCall
    /\ fetch_log = <<>>

AgentInit == IdleAgent /\ consolidated_file \in BOOLEAN

othersIdle == UNCHANGED <<fillVars, llmVars, tagVars, restVars>>

\* app_interactive.initialize_agent, lines 123-135, and ConversationalAgent.__init__,
\* lines 39-60: the global agent is replaced by a fresh one
initialize_agent ==
    /\ init_pc = "idle" /\ pm_pc = "idle"
    /\ agent' = "agent"
    /\ phase' = "not_started"
    /\ consolidated_data' = "None"
    /\ current_tags' = <<>>
    /\ all_questions' = "all0"
    /\ displayed_questions' = "disp0"
    /\ lists' = [r \in ListRefs |-> <<>>]
    /\ objects' = <<>>
    /\ categories' = <<>>
    /\ conversation_history' = <<>>
    /\ extracted_facts' = {}
    /\ init_pc' = "created"
    /\ temp' = EmptyTemp
    /\ fetch_log' = <<>>
    /\ UNCHANGED <<consolidated_file, pm_pc, last_call>>
    /\ othersIdle

\* a variant of initialize that leaves the phase alone before its first await
InitializeBeginLate ==
    /\ init_pc = "created"
    /\ init_pc' = "consolidated"
    /\ UNCHANGED <<agent, phase, consolidated_data, current_tags, all_questions,
                   displayed_questions, lists, objects, categories, conversation_history,
                   extracted_facts, consolidated_file, pm_pc, temp, last_call, fetch_log>>
    /\ othersIdle

\* initialize, lines 71-77: up to the first await
InitializeBegin ==
    /\ init_pc = "created"
    /\ phase' = "generating"
    /\ init_pc' = "consolidated"
    /\ UNCHANGED <<agent, consolidated_data, current_tags, all_questions, displayed_questions,
                   lists, objects, categories, conversation_history, extracted_facts,
                   consolidated_file, pm_pc, temp, last_call, fetch_log>>
    /\ othersIdle

\* initialize, lines 77-78 with _get_or_generate_consolidated, lines 204-261: the
\* file is loaded, or generated and written, or a phase extractor raises
InitializeConsolidated ==
    /\ init_pc = "consolidated"
    /\ \E extraction_raises \in BOOLEAN :
         IF consolidated_file \/ ~extraction_raises
         THEN /\ consolidated_data' = "data"
              /\ consolidated_file' = TRUE
              /\ init_pc' = "intent"
              /\ UNCHANGED <<phase, last_call>>
         ELSE /\ phase' = initialize_except(phase)
              /\ init_pc' = "idle"
              /\ last_call' = [op |-> "initialize", result |-> "returned", exception |-> "Exception"]
              /\ UNCHANGED <<consolidated_data, consolidated_file>>
    /\ UNCHANGED <<agent, current_tags, all_questions, displayed_questions, lists, objects,
                   categories, conversation_history, extracted_facts, pm_pc, temp, fetch_log>>
    /\ othersIdle

\* initialize, lines 82-90: the intent is extracted and the tags stored
InitializeIntent ==
    /\ init_pc = "intent"
    /\ \E response \in IntentResponses :
         LET initial_tags == intent_tags(extract_intent_tags(response)) IN
         /\ current_tags' = initial_tags
         /\ temp' = [temp EXCEPT !.tags = initial_tags]
    /\ init_pc' = "fetch"
    /\ UNCHANGED <<agent, phase, consolidated_data, all_questions, displayed_questions, lists,
                   objects, categories, conversation_history, extracted_facts,
                   consolidated_file, pm_pc, last_call, fetch_log>>
    /\ othersIdle

\* initialize, lines 93-96
InitializeFetch ==
    /\ init_pc = "fetch"
    /\ \E results \in [1..Len(temp.tags) -> ApiResults] :
         LET questions == fetch_questions_by_tags(temp.tags, results) IN
         /\ temp' = [temp EXCEPT !.questions = questions]
         /\ init_pc' = IF questions = <<>> THEN "fetch_default" ELSE "prefill"
    /\ fetch_log' = temp.tags
    /\ UNCHANGED <<agent, phase, consolidated_data, current_tags, all_questions,
                   displayed_questions, lists, objects, categories, conversation_history,
                   extracted_facts, consolidated_file, pm_pc, last_call>>
    /\ othersIdle

\* initialize, lines 96-98
InitializeFetchDefault ==
    /\ init_pc = "fetch_default"
    /\ \E results \in [1..2 -> ApiResults] :
         temp' = [temp EXCEPT !.questions = fetch_questions_by_tags(<<core_hr, payroll>>, results)]
    /\ init_pc' = "prefill"
    /\ fetch_log' = <<core_hr, payroll>>
    /\ UNCHANGED <<agent, phase, consolidated_data, current_tags, all_questions,
                   displayed_questions, lists, objects, categories, conversation_history,
                   extracted_facts, consolidated_file, pm_pc, last_call>>
    /\ othersIdle

\* initialize, lines 102-128: both state entries get the one list prefill returned
InitializeFinish(filled_questions_) ==
    /\ objects' = filled_questions_
    /\ lists' = [lists EXCEPT !["filled"] = [i \in 1..Len(filled_questions_) |-> i]]
    /\ all_questions' = "filled"
    /\ displayed_questions' = "filled"
    /\ categories' = _organize_questions_by_category(lists'["filled"], objects')
    /\ conversation_history' = Append(conversation_history, [role |-> "assistant"])
    /\ phase' = "ready"
    /\ init_pc' = "idle"
    /\ temp' = EmptyTemp
    /\ last_call' = [op |-> "initialize", result |-> "returned", exception |-> "none"]

InitializePrefill ==
    /\ init_pc = "prefill"
    /\ IF temp.questions = <<>>
       THEN InitializeFinish(<<>>)
       ELSE \E response \in AgentFillResponses(temp.questions) :
               InitializeFinish(prefill_answers_from_consolidated(temp.questions, <<response>>))
    /\ UNCHANGED <<agent, consolidated_data, current_tags, extracted_facts,
                   consolidated_file, pm_pc, fetch_log>>
    /\ othersIdle

\* handle_chat_message, lines 412-413
HandleChatNoAgent ==
    /\ agent = "None"
    /\ last_call' = [op |-> "handle_chat_message", result |-> "start_first", exception |-> "none"]
    /\ UNCHANGED <<agent, phase, consolidated_data, current_tags, all_questions,
                   displayed_questions, lists, objects, categories, conversation_history,
                   extracted_facts, consolidated_file, init_pc, pm_pc, temp, fetch_log>>
    /\ othersIdle

\* handle_chat_message, lines 415-416
HandleChatGenerating ==
    /\ agent = "agent" /\ init_pc # "created" /\ pm_pc = "idle"
    /\ phase = "generating"
    /\ last_call' = [op |-> "handle_chat_message", result |-> "please_wait", exception |-> "none"]
    /\ UNCHANGED <<agent, phase, consolidated_data, current_tags, all_questions,
                   displayed_questions, lists, objects, categories, conversation_history,
                   extracted_facts, consolidated_file, init_pc, pm_pc, temp, fetch_log>>
    /\ othersIdle

UserMessages == Len(SelectSeq(conversation_history, LAMBDA m : m.role = "user"))

\* handle_chat_message, line 419, and process_message, lines 148-160 with the prompt
\* building of _analyze_message_context, lines 278-320: up to the first await
ProcessMessageBegin ==
    /\ agent = "agent" /\ init_pc # "created" /\ pm_pc = "idle"
    /\ phase # "generating"
    /\ UserMessages < MaxMessages
    /\ phase' = "conversing"
    /\ conversation_history' = Append(conversation_history, [role |-> "user"])
    /\ IF _get_sample_questions_raises(lists[displayed_questions], objects)
       THEN /\ last_call' = process_message_except("TypeError")
            /\ UNCHANGED pm_pc
       ELSE /\ pm_pc' = "analysis"
            /\ UNCHANGED last_call
    /\ UNCHANGED <<agent, consolidated_data, current_tags, all_questions, displayed_questions,
                   lists, objects, categories, extracted_facts, consolidated_file, init_pc,
                   temp, fetch_log>>
    /\ othersIdle

\* process_message, lines 160-172, and _fetch_and_add_new_questions, lines 359-370
ProcessMessageAnalysis ==
    /\ pm_pc = "analysis"
    /\ \E response \in AnalysisResponses :
         LET analysis == _analyze_message_context(response)
             available_tags == get_all_available_tags
         IN
         IF analysis.extracted_info = "not_a_dict"
         THEN \* self.state["extracted_facts"].update(extracted_info) raises
              /\ last_call' = process_message_except("ValueError")
              /\ pm_pc' = "idle"
              /\ UNCHANGED <<extracted_facts, current_tags, temp>>
         ELSE /\ extracted_facts' = IF analysis.extracted_info = "facts"
                                    THEN extracted_facts \cup {"fact"} ELSE extracted_facts
              /\ IF analysis.needs_new_questions /\ analysis.new_tags # <<>>
                 THEN IF validate_and_expand_tags_raises(analysis.new_tags, available_tags)
                      THEN /\ last_call' = process_message_except("AttributeError")
                           /\ pm_pc' = "idle"
                           /\ UNCHANGED <<current_tags, temp>>
                      ELSE LET valid_tags == validate_and_expand_tags(analysis.new_tags, available_tags)
                           IN  /\ current_tags' = add_current_tags(current_tags, valid_tags, 1)
                               /\ temp' = [temp EXCEPT !.tags = valid_tags,
                                                       !.info = analysis.extracted_info]
                               /\ pm_pc' = "fetch"
                               /\ UNCHANGED last_call
                 ELSE /\ temp' = [temp EXCEPT !.info = analysis.extracted_info]
                      /\ pm_pc' = "update"
                      /\ UNCHANGED <<current_tags, last_call>>
    /\ UNCHANGED <<agent, phase, consolidated_data, all_questions, displayed_questions, lists,
                   objects, categories, conversation_history, consolidated_file, init_pc,
                   fetch_log>>
    /\ othersIdle

\* _fetch_and_add_new_questions, lines 373-388 up to the await of the pre-fill
ProcessMessageFetch ==
    /\ pm_pc = "fetch"
    /\ \E results \in [1..Len(temp.tags) -> ApiResults] :
         LET new_questions == fetch_questions_by_tags(temp.tags, results) IN
         IF new_questions = <<>>
         THEN pm_pc' = "update" /\ UNCHANGED <<temp, last_call>>
         ELSE IF prefill_raises(new_questions, consolidated_data)
         THEN /\ last_call' = process_message_except("AttributeError")
              /\ pm_pc' = "idle"
              /\ temp' = EmptyTemp
         ELSE /\ temp' = [temp EXCEPT !.questions = new_questions]
              /\ pm_pc' = "prefill"
              /\ UNCHANGED last_call
    /\ fetch_log' = temp.tags
    /\ UNCHANGED <<agent, phase, consolidated_data, current_tags, all_questions,
                   displayed_questions, lists, objects, categories, conversation_history,
                   extracted_facts, consolidated_file, init_pc>>
    /\ othersIdle

\* _fetch_and_add_new_questions, lines 382-399
ProcessMessagePrefill ==
    /\ pm_pc = "prefill"
    /\ \E response \in AgentFillResponses(temp.questions) :
         LET filled_new_questions ==
                 prefill_answers_from_consolidated(temp.questions, <<response>>)
             existing_question_texts == TextsOf(AllQuestions)
             merged == merge_new_questions(filled_new_questions, 1, existing_question_texts,
                                           lists, objects, all_questions, displayed_questions)
         IN  /\ lists' = merged.lists
             /\ objects' = merged.objects
             /\ categories' = _organize_questions_by_category(
                                  merged.lists[displayed_questions], merged.objects)
    /\ temp' = [temp EXCEPT !.questions = <<>>]
    /\ pm_pc' = "update"
    /\ UNCHANGED <<agent, phase, consolidated_data, current_tags, all_questions,
                   displayed_questions, conversation_history, extracted_facts,
                   consolidated_file, init_pc, last_call, fetch_log>>
    /\ othersIdle

\* process_message, lines 175-179: _update_answers_with_new_info and
\* _batch_update_answers, lines 403-492, then _update_displayed_questions, lines 494-504
ProcessMessageUpdate ==
    /\ pm_pc = "update"
    /\ LET displayed == lists[displayed_questions]
           questions_to_update == SelectSeq(displayed, LAMBDA r : needs_answer(objects[r]))
       IN  IF temp.info = "facts" /\ questions_to_update # <<>>
           THEN \E response \in UpdateResponses(displayed, objects) :
                   objects' = _batch_update_answers(response, displayed, objects)
           ELSE UNCHANGED objects
    /\ displayed_questions' = all_questions
    /\ categories' = _organize_questions_by_category(lists[all_questions], objects')
    /\ pm_pc' = "respond"
    /\ UNCHANGED <<agent, phase, consolidated_data, current_tags, all_questions, lists,
                   conversation_history, extracted_facts, consolidated_file, init_pc, temp,
                   last_call, fetch_log>>
    /\ othersIdle

\* process_message, lines 182-196
ProcessMessageRespond ==
    /\ pm_pc = "respond"
    /\ conversation_history' = Append(conversation_history, [role |-> "assistant"])
    /\ last_call' = [op |-> "process_message", result |-> "response", exception |-> "none"]
    /\ pm_pc' = "idle"
    /\ temp' = EmptyTemp
    /\ UNCHANGED <<agent, phase, consolidated_data, current_tags, all_questions,
                   displayed_questions, lists, objects, categories, extracted_facts,
                   consolidated_file, init_pc, fetch_log>>
    /\ othersIdle

Init == AgentInit /\ IdleFill /\ IdleLlm /\ IdleTags /\ IdleRest

Next ==
    \/ initialize_agent
    \/ InitializeBegin
    \/ InitializeConsolidated
    \/ InitializeIntent
    \/ InitializeFetch
    \/ InitializeFetchDefault
    \/ InitializePrefill
    \/ HandleChatNoAgent
    \/ HandleChatGenerating
    \/ ProcessMessageBegin
    \/ ProcessMessageAnalysis
    \/ ProcessMessageFetch
    \/ ProcessMessagePrefill
    \/ ProcessMessageUpdate
    \/ ProcessMessageRespond

Spec == Init /\ [][Next]_vars

InitTags == TagsInit /\ IdleAgent /\ consolidated_file = FALSE /\ IdleFill /\ IdleLlm /\ IdleRest
NextTags == ValidateTags
SpecTags == InitTags /\ [][NextTags]_vars

InitLLM == LlmInit /\ IdleAgent /\ consolidated_file = FALSE /\ IdleFill /\ IdleTags /\ IdleRest
NextLLM == LlmBuildMessages \/ LlmAttempt
SpecLLM == InitLLM /\ [][NextLLM]_vars

InitIntent == IntentInit /\ IdleAgent /\ consolidated_file = FALSE /\ IdleFill /\ IdleLlm /\ IdleTags /\ IdleFetch /\ IdleGen /\ IdlePrereq /\ IdleFlat
NextIntent == ExtractIntent
SpecIntent == InitIntent /\ [][NextIntent]_vars

InitFetch == FetchInit /\ IdleAgent /\ consolidated_file = FALSE /\ IdleFill /\ IdleLlm /\ IdleTags /\ IdleIntent /\ IdleGen /\ IdlePrereq /\ IdleFlat
NextFetch == FetchTag \/ FetchReturn
SpecFetch == InitFetch /\ [][NextFetch]_vars

InitGen == IdleGen /\ IdleAgent /\ consolidated_file = FALSE /\ IdleFill /\ IdleLlm /\ IdleTags /\ IdleIntent /\ IdleFetch /\ IdlePrereq /\ IdleFlat
NextGen ==
    \/ GenLoadExisting
    \/ GenBegin
    \/ GenStartBatch
    \/ GenPhaseFinish
    \/ GenAwaitTask
    \/ GenBatchEnd
    \/ GenNextBatch
    \/ GenConsolidate
SpecGen == InitGen /\ [][NextGen]_vars

InitPrereq == IdlePrereq /\ IdleAgent /\ consolidated_file = FALSE /\ IdleFill /\ IdleLlm /\ IdleTags /\ IdleIntent /\ IdleFetch /\ IdleGen /\ IdleFlat
NextPrereq == InitializePrerequisites \/ ProcessAnswer
SpecPrereq == InitPrereq /\ [][NextPrereq]_vars

InitFlat == FlatInit /\ IdleAgent /\ consolidated_file = FALSE /\ IdleFill /\ IdleLlm /\ IdleTags /\ IdleIntent /\ IdleFetch /\ IdleGen /\ IdlePrereq
NextFlat == ValidateExtractedData
SpecFlat == InitFlat /\ [][NextFlat]_vars

InitFill == FillInit /\ IdleAgent /\ consolidated_file = FALSE /\ IdleLlm /\ IdleTags /\ IdleRest
NextFill == FillBegin \/ FillBatch \/ FillReturn
SpecFill == InitFill /\ [][NextFill]_vars

(***************************************************************************)
(* Properties                                                              *)
(***************************************************************************)
Idle == init_pc = "idle" /\ pm_pc = "idle"

\* C1: once initialize and any process_message calls have returned,
\* state.all_questions holds no two entries with the same question text.
C1_NoDuplicateTexts ==
    Idle => \A i, j \in 1..Len(AllQuestions) :
                i # j => AllQuestions[i].questions # AllQuestions[j].questions

\* C2: after initialize has returned with phase 'ready' and after every
\* process_message return, displayed_questions holds the same questions in the
\* same order as all_questions, and no step of a chat call makes all_questions
\* or displayed_questions shorter.
C2_Displayed == (Idle /\ agent = "agent" /\ phase \in {"ready", "conversing"})
                    => DisplayedQuestions = AllQuestions
C2_NeverFewer ==
    (init_pc = "idle" /\ init_pc' = "idle")
        => /\ Len(lists'[all_questions']) >= Len(lists[all_questions])
           /\ Len(lists'[displayed_questions']) >= Len(lists[displayed_questions])
C3_FetchOnlyAvailableTags ==
    \A i \in 1..Len(fetch_log) : InList(fetch_log[i], get_all_available_tags)

\* C4: the phase moves not_started -> generating -> ready -> conversing, 'error'
\* is entered only from 'generating', 'conversing' only from 'ready' or
\* 'conversing', and process_message never starts on an agent whose phase is
\* 'not_started', 'generating' or 'error'.
C4_Step ==
    \/ phase' = phase
    \/ init_pc' = "created" /\ phase' = "not_started"     \* a new agent
    \/ <<phase, phase'>> \in {<<"not_started", "generating">>, <<"generating", "ready">>,
                              <<"generating", "error">>, <<"ready", "conversing">>}
C4_MessageStart ==
    (Len(conversation_history') > Len(conversation_history) /\ init_pc = "idle"
        /\ conversation_history'[Len(conversation_history')].role = "user")
        => phase \in {"ready", "conversing"}
C4_Lifecycle == [][C4_Step /\ C4_MessageStart]_vars

\* C5: when initialize returns no exception has escaped, the phase is 'ready' or
\* 'error', it is 'ready' exactly when no step raised, and then the consolidated
\* data, the tags and the one list of pre-filled questions are in the state.
C5_Return ==
    (init_pc # "idle" /\ init_pc' = "idle")
        => /\ last_call'.op = "initialize" /\ last_call'.result = "returned"
           /\ phase' \in {"ready", "error"}
           /\ phase' = "ready" <=> last_call'.exception = "none"
           /\ phase' = "error" <=> last_call'.exception # "none"
           /\ phase' = "ready" =>
                /\ consolidated_data' = "data"
                /\ all_questions' = "filled" /\ displayed_questions' = "filled"
                /\ current_tags' = temp.tags
C5_InitializeOutcome == [][C5_Return]_vars

\* C5 witness: initialize has returned after a phase extractor raised
C5_Witness ==
    /\ init_pc = "idle" /\ phase = "error"
    /\ last_call = [op |-> "initialize", result |-> "returned", exception |-> "Exception"]

\* C6: process_message returns a string whatever the LLM and the retrieval do:
\* the bot response, or the error message exactly when an internal step raised.
C6_ProcessMessageReturns ==
    last_call.op = "process_message"
        => /\ last_call.result \in {"response", "error_message"}
           /\ last_call.result = "error_message" <=> last_call.exception # "none"

\* C6 witness: a step raised TypeError and the error message came back
C6_Witness ==
    /\ Idle
    /\ last_call = [op |-> "process_message", result |-> "error_message", exception |-> "TypeError"]

\* C7: with consolidated data at hand, prefill_answers_from_consolidated returns one
\* question per input question, in input order and with its id, whatever the LLM
\* replied to each batch of 20, with one LLM call per batch; the input dicts are
\* as they were; an empty input gives an empty list and no LLM call.
C7_OnePerQuestion ==
    /\ fill_questions = FetchedQuestions(Len(fill_questions))
    /\ fill_llm_calls <= NumBatches(Len(fill_questions))
    /\ (fill_pc = "done" /\ fill_questions = <<>>)
          => fill_result = [raised |-> FALSE, value |-> <<>>] /\ fill_llm_calls = 0
    /\ (fill_pc = "done" /\ fill_consolidated = "data")
          => /\ ~fill_result.raised
             /\ Len(fill_result.value) = Len(fill_questions)
             /\ \A i \in 1..Len(fill_questions) :
                    /\ fill_result.value[i].id = fill_questions[i].id
                    /\ fill_result.value[i].questions = fill_questions[i].questions
             /\ fill_llm_calls = NumBatches(Len(fill_questions))

\* C7 witness: 21 questions, the first answered in batch one, batch two unparsable
C7_Witness ==
    /\ fill_pc = "done" /\ Len(fill_questions) = batch_size + 1
    /\ fill_llm_calls = 2
    /\ fill_result.value[1].answer = "Yes"
    /\ fill_result.value[2].answer = ""
    /\ fill_result.value[batch_size + 1].answer = NoKey

\* C8: every question prefill_answers_from_consolidated returns has an 'answer' field.
C8_EveryAnswerPresent ==
    (fill_pc = "done" /\ ~fill_result.raised)
        => \A i \in 1..Len(fill_result.value) : fill_result.value[i].answer # NoKey

\* C9: call_llm_api_async makes at most 3 API attempts; given a prompt it returns a
\* string; if all three attempts raise, the string is the 'Error calling LLM API'
\* one, and a third response whose content is text is returned as it is.
C9_AtMostThreeAttempts ==
    /\ Len(api_calls) <= max_retries
    /\ llm_pc = "loop" => Len(api_calls) < max_retries
    /\ (llm_pc = "done" /\ llm_builds_messages(llm_args))
          => /\ llm_result.kind = "string"
             /\ Len(api_calls) >= 1
             /\ (\A i \in 1..Len(api_calls) : api_calls[i].raises)
                   => Len(api_calls) = max_retries /\ llm_result.value = ErrorCallingLLM
             /\ (Len(api_calls) = max_retries /\ ~api_calls[max_retries].raises
                                              /\ api_calls[max_retries].content # "None")
                   => llm_result.value = api_calls[max_retries].content

\* C9 witness: three attempts, all raising
C9_Witness ==
    /\ llm_pc = "done" /\ Len(api_calls) = 3
    /\ \A i \in 1..3 : api_calls[i].raises
    /\ llm_result = [kind |-> "string", value |-> ErrorCallingLLM]

\* C10: validate_and_expand_tags returns the input tags, lowercased and in input
\* order, that occur case-insensitively in available_tags, and ['core hr',
\* 'payroll'] when there is none; the result is never empty.
TagIsAvailable(i) ==
    \E j \in 1..Len(tag_available) : lower(tag_input[i]) = lower(tag_available[j])
TagRank(i) == Cardinality({j \in 1..i : TagIsAvailable(j)})
C10_ValidTags ==
    tag_pc = "done" =>
        /\ tag_result # <<>>
        /\ IF \E i \in 1..Len(tag_input) : TagIsAvailable(i)
           THEN /\ Len(tag_result) = TagRank(Len(tag_input))
                /\ \A i \in 1..Len(tag_input) :
                       TagIsAvailable(i) => tag_result[TagRank(i)] = lower(tag_input[i])
           ELSE tag_result = <<core_hr, payroll>>

\* C10 witness: a mixed-case available tag between two unavailable ones
C10_Witness ==
    /\ tag_pc = "done"
    /\ tag_input = <<finance, Payroll_mixed, finance>>
    /\ tag_available = get_all_available_tags
    /\ tag_result = <<payroll>>
\* C11: extract_intent_tags returns a dict whose 'tags' entry is a list of
\* lowercase tag strings for every LLM reply: the reply's tags lowercased when it
\* parses, ['core hr', 'payroll'] when it does not parse, ['core hr'] on any
\* other error.
C11_TagsAlwaysReturned ==
    intent_pc = "done" =>
        /\ intent_data.has_tags
        /\ \A i \in 1..Len(intent_data.tags) :
               /\ intent_data.tags[i] # NotAString
               /\ intent_data.tags[i] = lower(intent_data.tags[i])
        /\ intent_response.kind = "unparsable" => intent_data.tags = <<core_hr, payroll>>
\* C12: the list one fetch_questions_by_tags call returns holds no two questions
\* with the same text and no two with the same id, and a text returned under
\* several tags is kept once, under the first tag of the list that returned it.
FetchFailed ==
    \E i \in 1..Len(fetch_tags) :
        fetch_tags[i] = NotAString \/ fetch_results[i].kind = "bad_data"
ReturnedUnder(text) ==
    {i \in 1..Len(fetch_tags) :
        fetch_results[i].kind = "ok" /\ InList(text, fetch_results[i].texts)}
C12_FetchedOnce ==
    fetch_pc = "done" =>
        /\ \A i, j \in 1..Len(fetched) :
               i # j => /\ fetched[i].questions # fetched[j].questions
                        /\ fetched[i].id # fetched[j].id
        /\ fetched = fetch_questions_by_tags(fetch_tags, fetch_results)
        /\ ~FetchFailed =>
              /\ TextsOf(fetched) = {t \in {1, 2} : ReturnedUnder(t) # {}}
              /\ \A k \in 1..Len(fetched) :
                     LET under == ReturnedUnder(fetched[k].questions)
                         first == CHOOSE i \in under : \A j \in under : i <= j
                     IN  fetched[k].categoryID = lower(fetch_tags[first])

\* C12 witness: text 1 comes back under both tags, text 2 twice under the second
C12_Witness ==
    /\ fetch_pc = "done"
    /\ fetch_tags = <<core_hr, Payroll_mixed>>
    /\ fetch_results = <<[kind |-> "ok", texts |-> <<1, 2>>], [kind |-> "ok", texts |-> <<2, 2>>]>>
    /\ fetched = <<question_obj(core_hr, 1, 1), question_obj(core_hr, 2, 2)>>
\* C13: when consolidated.json exists a generation run loads and returns it and
\* calls no phase extractor, so a second run returns what the first one wrote;
\* extractors run only while there is no consolidated.json.
C13_Loaded ==
    (gen_pc = "done" /\ gen_result.status \in {"loaded", "returned"})
        => /\ disk_consolidated.exists
           /\ gen_result.data = disk_consolidated.sections
C13_RunStep ==
    /\ (gen_run' = gen_run + 1 /\ disk_consolidated.exists)
          => /\ gen_pc' = "done"
             /\ gen_result' = [status |-> "loaded", data |-> disk_consolidated.sections]
             /\ \A p \in Phases : extract_calls'[p] = 0 /\ phase_status'[p] = "pending"
             /\ UNCHANGED <<disk_consolidated, phase_files>>
    /\ (\E p \in Phases : extract_calls'[p] > extract_calls[p])
          => ~disk_consolidated.exists
PhaseOver(p) == phase_status[p] \in {"completed", "failed"}
C17_BatchesInOrder ==
    /\ \A p \in Phases : extract_calls[p] <= 1
    /\ \A p \in Phases : (extract_calls[p] = 1) <=> PhaseOver(p)
    /\ batch_start \in {0, 3, 6}
    /\ \A p \in Phases : phase_status[p] # "pending" => p <= batch_start + 3
    /\ \A p, q \in Phases :
          ((p - 1) \div 3 < (q - 1) \div 3 /\ phase_status[q] # "pending") => PhaseOver(p)
    /\ gen_pc = "await" => \A p \in (batch_start + 1)..(batch_start + 3) : phase_status[p] # "pending"
    /\ pauses \in {<<>>, <<0>>, <<0, 3>>}
    /\ gen_pc = "sleep" => /\ pauses[Len(pauses)] = batch_start
                           /\ \A p \in 1..(batch_start + 3) : PhaseOver(p)
    /\ gen_pc \in {"batch", "await"} => Len(pauses) = batch_start \div 3
    /\ gen_pc = "consolidate" =>
          /\ pauses = <<0, 3>>
          /\ \A p \in Phases : PhaseOver(p) /\ extract_calls[p] = 1
          /\ (\A p \in Phases : phase_status[p] = "completed")
                => \A p \in Phases : phase_files[p] = gen_run

\* C17 witness: the agent's generation is about to consolidate nine fresh phase files
C17_Witness ==
    /\ gen_pc = "consolidate" /\ gen_caller = "agent"
    /\ pauses = <<0, 3>>
    /\ \A p \in Phases : phase_status[p] = "completed" /\ extract_calls[p] = 1

\* C18: in generate_all_phases a phase whose extraction raises is reported as
\* 'failed'; every phase is still attempted once, the consolidation runs over
\* the phase files that exist, and the summary is returned.
C18_FailureContained ==
    /\ gen_caller = "app" => gen_result.status \in {"none", "loaded", "summary"}
    /\ (gen_caller = "app" /\ gen_pc = "done" /\ gen_result.status # "loaded") =>
          /\ gen_result.status = "summary"
          /\ \A p \in Phases :
                /\ extract_calls[p] = 1
                /\ PhaseOver(p)
                /\ phase_status[p] = "completed" => phase_files[p] = gen_run
          /\ company_dir =>
                /\ disk_consolidated.exists
                /\ \A p \in Phases : disk_consolidated.sections[p] = phase_files[p]
                /\ gen_result.data = disk_consolidated.sections

\* C18 witness: phase 2 failed, the other eight were extracted and consolidated
C18_Witness ==
    /\ gen_caller = "app" /\ gen_pc = "done" /\ gen_run = 1
    /\ gen_result.status = "summary"
    /\ phase_status[2] = "failed"
    /\ \A p \in Phases \ {2} : phase_status[p] = "completed"
    /\ disk_consolidated.exists
    /\ disk_consolidated.sections[2] = 0
    /\ \A p \in Phases \ {2} : disk_consolidated.sections[p] = 1
\* C14: while the phase is 'asking' a process_answer call records the message as
\* the answer to question number k (0-based), k being the number of answers
\* recorded before; the progress is (answers recorded)/(number of questions);
\* after N such calls for N questions the phase is 'completed' and is_complete
\* is True.
AnswersRecorded == Cardinality(DOMAIN prereq_state.answers)
C14_AskingStep ==
    (prereq_calls' = prereq_calls + 1 /\ prereq_state.phase = "asking") =>
        LET k == AnswersRecorded
            q == prereq_state.questions[k + 1]
            N == Len(prereq_state.questions)
        IN  /\ k < N
            /\ DOMAIN prereq_state'.answers = DOMAIN prereq_state.answers \cup {q.id}
            /\ q.id \notin DOMAIN prereq_state.answers
            /\ prereq_state'.answers[q.id] = prereq_result'.user_message
            /\ \A i \in DOMAIN prereq_state.answers :
                   prereq_state'.answers[i] = prereq_state.answers[i]
            /\ prereq_state'.questions = prereq_state.questions
            /\ prereq_result'.progress = <<k + 1, N>>
            /\ prereq_result'.is_complete <=> (k + 1 = N)
            /\ prereq_state'.phase = IF k + 1 = N THEN "completed" ELSE "asking"
C14_AskingCount ==
    /\ prereq_state.phase = "asking" => asking_calls = AnswersRecorded /\ asking_calls < Len(prereq_state.questions)
    /\ (prereq_state.phase = "completed" /\ prereq_state.questions # <<>>)
          => asking_calls = Len(prereq_state.questions)
C15_OtherStep ==
    (prereq_calls' = prereq_calls + 1 /\ prereq_state.phase # "asking") =>
        /\ prereq_state' = prereq_state
        /\ prereq_result'.is_complete
C15_Bounded == AnswersRecorded <= Len(prereq_state.questions)
C15_NoEffectUnlessAsking == [](C15_Bounded) /\ [][C15_OtherStep]_vars

\* C15 witness: a call made after completion, and one made before initialization
C15_Witness ==
    /\ prereq_state.phase = "completed" /\ AnswersRecorded = 9
    /\ prereq_calls = 10 /\ asking_calls = 9
    /\ prereq_result.called /\ prereq_result.is_complete
\* C16: _batch_update_answers changes no answer that was non-empty and different
\* from 'Not Available' before the call, whatever the LLM replied.
C16_UpdateStep ==
    pm_pc = "update" =>
        \A r \in 1..Len(objects) :
            (InList(r, lists[displayed_questions]) /\ ~needs_answer(objects[r]))
                => objects'[r].answer = objects[r].answer
C16_AnsweredKept == [][C16_UpdateStep]_vars
\* C19: while initialize is in progress the phase is 'generating', a chat message
\* is answered with the 'Please wait' notice, process_message is not running, and
\* the chat handlers leave conversation_history, current_tags, all_questions and
\* displayed_questions as they are.
Initializing == init_pc \notin {"idle", "created"}
C19_NotProcessed ==
    Initializing => phase = "generating" /\ pm_pc = "idle"
C19_ChatStep ==
    (Initializing /\ last_call' # last_call /\ last_call'.op # "initialize") =>
        /\ last_call' = [op |-> "handle_chat_message", result |-> "please_wait",
                         exception |-> "none"]
        /\ UNCHANGED <<conversation_history, current_tags, all_questions,
                       displayed_questions, lists, objects, init_pc, pm_pc>>
C19_WaitWhileGenerating == [](C19_NotProcessed) /\ [][C19_ChatStep]_vars

\* C19 witness: a message was answered with the notice between two steps of initialize
C19_Witness ==
    /\ init_pc = "prefill" /\ temp.questions # <<>>
    /\ last_call = [op |-> "handle_chat_message", result |-> "please_wait", exception |-> "none"]
    /\ conversation_history = <<>>
\* C20: the flattened result holds no dict and no list; its entries are exactly
\* the leaves of the input reachable through keys that do not start with '_',
\* each under its path joined with '_', a null leaf and an empty list as
\* 'Not Available'.
RECURSIVE LeavesOf(_, _)
LeavesOf(entries, parent_key) ==
    UNION {LET key   == entries[i][1]
               value == entries[i][2]
               path  == new_key(parent_key, key)
           IN  IF startswith_underscore(key) THEN {}
               ELSE IF value.t = "dict" THEN LeavesOf(value.items, path)
               ELSE IF value.t = "list" /\ value.items # <<>>
                         /\ \A j \in 1..Len(value.items) : value.items[j][2].t = "dict"
               THEN UNION {LeavesOf(value.items[j][2].items, path \o <<"_">> \o value.items[j][1]) :
                              j \in 1..Len(value.items)}
               ELSE {<<path, flat_value(value)>>}
           : i \in 1..Len(entries)}
C20_FlatAndComplete ==
    flat_pc = "done" =>
        /\ \A i \in 1..Len(validated_json) : validated_json[i][2].t \in {"num", "str"}
        /\ \A i, j \in 1..Len(validated_json) :
               i # j => validated_json[i][1] # validated_json[j][1]
        /\ {validated_json[i] : i \in 1..Len(validated_json)} = LeavesOf(extracted_data.items, <<>>)
====
